---- MODULE Spec2Model ----
(***************************************************************************)
(* Normalization, validation and deduplication pipeline of the unified     *)
(* code-problem corpus: Source Mapper (download_hf.py), Local Cleaner      *)
(* (validate_clean.py), Text Normalizer and Distributed Unifier            *)
(* (spark_clean.py).                                                       *)
(*                                                                         *)
(* A text is a sequence of one-character strings; positions are 1-based    *)
(* and a match "end" is the position of the first character after it.      *)
(* A matcher returns 0 when the pattern does not match.                    *)
(***************************************************************************)
EXTENDS Integers, Sequences, FiniteSets, TLC

VARIABLES pc, txt, pass1, pass2, key, ds, mapped, rawTier, require_solution,
          cleanDir, removed, recleaned, stats, unionTier, sample

vars == <<pc, txt, pass1, pass2, key, ds, mapped, rawTier, require_solution,
          cleanDir, removed, recleaned, stats, unionTier, sample>>

----------------------------------------------------------------------------
(* Character classes of Python's re on str patterns.                       *)

WhiteSpace == {" ", "\t", "\n", "\r", "\f"}

LowerChars ==
    {"a","b","c","d","e","f","g","h","i","j","k","l","m",
     "n","o","p","q","r","s","t","u","v","w","x","y","z"}

UpperChars ==
    {"A","B","C","D","E","F","G","H","I","J","K","L","M",
     "N","O","P","Q","R","S","T","U","V","W","X","Y","Z"}

DigitChars == {"0","1","2","3","4","5","6","7","8","9"}

WordChars == LowerChars \cup UpperChars \cup DigitChars \cup {"_"}

IsSpace(c) == c \in WhiteSpace

IsWord(c) == c \in WordChars

IsImportArg(c) == IsWord(c) \/ IsSpace(c) \/ c \in {".", ",", "*"}

IsNotNewline(c) == c # "\n"

IsCommaOrSpace(c) == c \in {",", " "}

\* A character class, named by its predicate.
InClass(c, cls) ==
    CASE cls = "IsSpace"        -> IsSpace(c)
      [] cls = "IsWord"         -> IsWord(c)
      [] cls = "IsImportArg"    -> IsImportArg(c)
      [] cls = "IsNotNewline"   -> IsNotNewline(c)
      [] cls = "IsCommaOrSpace" -> IsCommaOrSpace(c)

\* The positions of s at which a match can start or end.
Positions(s) == 1..(Len(s) + 1)

Max(S) == CHOOSE x \in S : \A y \in S : y <= x

\* End of the maximal run of characters of class cls that starts at i.
RunEnd(s, i, cls) ==
    CHOOSE e \in i..(Len(s) + 1) :
        /\ \A j \in i..(e - 1) : InClass(s[j], cls)
        /\ (e = Len(s) + 1 \/ ~InClass(s[e], cls))

\* The literal w occurs in s at position i.
HasAt(s, i, w) ==
    /\ i + Len(w) - 1 <= Len(s)
    /\ \A k \in 1..Len(w) : s[i + k - 1] = w[k]

\* A greedy quantifier over class cls (at least m characters) followed by
\* the rest of the pattern: rest[e] is where the rest ends when it starts at
\* e, or 0.  The backtracking matcher tries the longest run first and gives
\* characters back until the rest matches.
Then(s, i, m, cls, rest) ==
    LET S == {e \in (i + m)..RunEnd(s, i, cls) : rest[e] # 0}
    IN  IF S = {} THEN 0 ELSE rest[Max(S)]

\* ^ and $ under re.MULTILINE.
LineStart(s, i) == i = 1 \/ s[i - 1] = "\n"

LineEnd(s, i) == i = Len(s) + 1 \/ s[i] = "\n"

----------------------------------------------------------------------------
(* Text Normalizer: spark_clean.py, RE_IMPORT_BLOCK / RE_CODE_FENCE /      *)
(* RE_MULTI_WS and normalize_prompt.                                       *)

KwImport == <<"i", "m", "p", "o", "r", "t">>

KwFrom == <<"f", "r", "o", "m">>

\* The backquote character U+0060 (a string literal cannot hold it).
BQ == "BQ"

Fence == <<BQ, BQ, BQ>>

\* \n
NewlineAt(s, i) == IF i <= Len(s) /\ s[i] = "\n" THEN i + 1 ELSE 0

\* \s*\n  (closes one statement line of the import block)
LineTail(s, i) ==
    Then(s, i, 0, "IsSpace", [e \in Positions(s) |-> NewlineAt(s, e)])

\* from\s+\w+(?:\.\w+)*\s+import\s+.*  followed by \s*\n, back to front.
FromRest(s, i) ==
    Then(s, i, 0, "IsNotNewline", [e \in Positions(s) |-> LineTail(s, e)])

FromSp3(s, i) ==
    Then(s, i, 1, "IsSpace", [e \in Positions(s) |-> FromRest(s, e)])

FromImport(s, i) == IF HasAt(s, i, KwImport) THEN FromSp3(s, i + 6) ELSE 0

FromSp2(s, i) ==
    Then(s, i, 1, "IsSpace", [e \in Positions(s) |-> FromImport(s, e)])

RECURSIVE FromDots(_, _)
FromDots(s, i) ==
    LET more == IF i <= Len(s) /\ s[i] = "."
                THEN Then(s, i + 1, 1, "IsWord",
                          [e \in Positions(s) |-> FromDots(s, e)])
                ELSE 0
    IN  IF more # 0 THEN more ELSE FromSp2(s, i)

FromMod(s, i) ==
    Then(s, i, 1, "IsWord", [e \in Positions(s) |-> FromDots(s, e)])

FromSp1(s, i) ==
    Then(s, i, 1, "IsSpace", [e \in Positions(s) |-> FromMod(s, e)])

FromStmt(s, i) == IF HasAt(s, i, KwFrom) THEN FromSp1(s, i + 4) ELSE 0

\* import\s+[\w\.,\s\*]+  followed by \s*\n
ImportArgs(s, i) ==
    Then(s, i, 1, "IsImportArg", [e \in Positions(s) |-> LineTail(s, e)])

ImportSp(s, i) ==
    Then(s, i, 1, "IsSpace", [e \in Positions(s) |-> ImportArgs(s, e)])

ImportStmt(s, i) == IF HasAt(s, i, KwImport) THEN ImportSp(s, i + 6) ELSE 0

\* (?:from ...|import ...)\s*\n : the first alternative is tried first.
StmtLine(s, i) ==
    IF FromStmt(s, i) # 0 THEN FromStmt(s, i) ELSE ImportStmt(s, i)

\* One iteration of the group: \s*(?:from ...|import ...)\s*\n
ImportLine(s, i) ==
    Then(s, i, 0, "IsSpace", [e \in Positions(s) |-> StmtLine(s, e)])

\* (?: ... )+ : greedy, as many iterations as match one after the other.
RECURSIVE ImportLines(_, _)
ImportLines(s, i) ==
    LET e == ImportLine(s, i)
    IN  IF e = 0 THEN 0
        ELSE LET more == ImportLines(s, e)
             IN  IF more # 0 THEN more ELSE e

\* RE_IMPORT_BLOCK at position i: ^ is a line start (re.MULTILINE).
RE_IMPORT_BLOCK(s, i) == IF LineStart(s, i) THEN ImportLines(s, i) ELSE 0

\* ^```(?:\w+)?\s*
FenceOpen(s, i) ==
    IF LineStart(s, i) /\ HasAt(s, i, Fence)
    THEN RunEnd(s, RunEnd(s, i + 3, "IsWord"), "IsSpace")
    ELSE 0

\* ```$
FenceAtEnd(s, i) == IF HasAt(s, i, Fence) /\ LineEnd(s, i + 3) THEN i + 3 ELSE 0

\* \s*```$
FenceClose(s, i) ==
    Then(s, i, 0, "IsSpace", [e \in Positions(s) |-> FenceAtEnd(s, e)])

\* RE_CODE_FENCE at position i: the two alternatives in order.
RE_CODE_FENCE(s, i) ==
    IF FenceOpen(s, i) # 0 THEN FenceOpen(s, i) ELSE FenceClose(s, i)

\* RE_MULTI_WS at position i: \s+
RE_MULTI_WS(s, i) ==
    IF i <= Len(s) /\ IsSpace(s[i]) THEN RunEnd(s, i, "IsSpace") ELSE 0

\* pattern.sub(repl, s): leftmost non-overlapping matches, scanned from i.
\* match[i] is where the pattern's match at i ends, or 0.
RECURSIVE SubFrom(_, _, _, _)
SubFrom(s, i, match, repl) ==
    IF i > Len(s) THEN <<>>
    ELSE LET e == match[i]
         IN  IF e # 0
             THEN repl \o SubFrom(s, e, match, repl)
             ELSE <<s[i]>> \o SubFrom(s, i + 1, match, repl)

\* str.strip(): the text without leading and trailing characters of class cls.
StripOf(s, cls) ==
    LET keep == {i \in 1..Len(s) : ~InClass(s[i], cls)}
    IN  IF keep = {} THEN <<>>
        ELSE LET lo == CHOOSE x \in keep : \A y \in keep : x <= y
                 hi == Max(keep)
             IN  [k \in 1..(hi - lo + 1) |-> s[lo + k - 1]]

Strip(s) == StripOf(s, "IsSpace")

StripImports(t) == SubFrom(t, 1, [i \in 1..Len(t) |-> RE_IMPORT_BLOCK(t, i)], <<>>)

StripFences(t) == SubFrom(t, 1, [i \in 1..Len(t) |-> RE_CODE_FENCE(t, i)], <<>>)

CollapseWs(t) == SubFrom(t, 1, [i \in 1..Len(t) |-> RE_MULTI_WS(t, i)], <<" ">>)

normalize_prompt(t) ==
    IF t = <<>> THEN <<>>
    ELSE Strip(CollapseWs(StripFences(StripImports(t))))

----------------------------------------------------------------------------
(* Python values held by raw records and table cells: None, str, int and   *)
(* list.  str(), truthiness (the operand test of "or") and str.lower().    *)

None == [t |-> "none", v |-> <<>>]

StrV(s) == [t |-> "str", v |-> s]

IntV(n) == [t |-> "int", v |-> <<n>>]

ListV(l) == [t |-> "list", v |-> l]

Truthy(x) ==
    CASE x.t = "none" -> FALSE
      [] x.t = "int"  -> x.v[1] # 0
      [] OTHER        -> x.v # <<>>

\* x or y
Or(x, y) == IF Truthy(x) THEN x ELSE y

DigitSeq == <<"0", "1", "2", "3", "4", "5", "6", "7", "8", "9">>

RECURSIVE IntText(_)
IntText(n) ==
    IF n < 10 THEN <<DigitSeq[n + 1]>>
    ELSE IntText(n \div 10) \o <<DigitSeq[(n % 10) + 1]>>

TxtNone == <<"N", "o", "n", "e">>

\* repr() of a list element (strings here hold no quote or escape).
Repr(x) ==
    CASE x.t = "none" -> TxtNone
      [] x.t = "int"  -> IntText(x.v[1])
      [] OTHER        -> <<"'">> \o x.v \o <<"'">>

\* sep.join(parts) for a sequence of texts.
RECURSIVE JoinTexts(_, _)
JoinTexts(sep, parts) ==
    IF parts = <<>> THEN <<>>
    ELSE IF Len(parts) = 1 THEN parts[1]
    ELSE parts[1] \o sep \o JoinTexts(sep, Tail(parts))

\* str(x)
PyStr(x) ==
    CASE x.t = "none" -> TxtNone
      [] x.t = "int"  -> IntText(x.v[1])
      [] x.t = "str"  -> x.v
      [] OTHER        ->
            <<"[">> \o JoinTexts(<<",", " ">>, [i \in DOMAIN x.v |-> Repr(x.v[i])])
                    \o <<"]">>

UpperSeq ==
    <<"A","B","C","D","E","F","G","H","I","J","K","L","M",
      "N","O","P","Q","R","S","T","U","V","W","X","Y","Z">>

LowerSeq ==
    <<"a","b","c","d","e","f","g","h","i","j","k","l","m",
      "n","o","p","q","r","s","t","u","v","w","x","y","z">>

LowerChar(c) ==
    IF c \in UpperChars
    THEN LowerSeq[CHOOSE i \in DOMAIN UpperSeq : UpperSeq[i] = c]
    ELSE c

\* str.lower()
Lower(s) == [i \in DOMAIN s |-> LowerChar(s[i])]

----------------------------------------------------------------------------
(* Schema Definition: schemas/columns.py.                                  *)

UNIFIED_CODE_COLUMNS ==
    <<"source", "dataset_id", "title", "prompt", "solution",
      "language", "difficulty", "tags", "split">>

Range(f) == {f[i] : i \in DOMAIN f}

----------------------------------------------------------------------------
(* Source Mapper: download_hf.py.  A raw record is a function from the     *)
(* field names it has to values; a dict literal is the sequence of its     *)
(* <<key, value>> items in insertion order.  A mapper call yields          *)
(* [ok |-> TRUE, dict |-> items], or ok = FALSE when it raises TypeError.  *)

TxtLowerNone == <<"n", "o", "n", "e">>

TxtLeetCode == <<"L", "e", "e", "t", "C", "o", "d", "e", "D", "a", "t", "a", "s", "e", "t">>

TxtLeetPrefix == <<"l", "e", "e", "t", "c", "o", "d", "e", "_">>

TxtLeetProblem == <<"l", "e", "e", "t", "c", "o", "d", "e", "_", "p", "r", "o", "b", "l", "e", "m">>

TxtApps == <<"A", "P", "P", "S">>

TxtCodeforces == <<"C", "o", "d", "e", "f", "o", "r", "c", "e", "s">>

TxtCodeSearchNet == <<"C", "o", "d", "e", "S", "e", "a", "r", "c", "h", "N", "e", "t">>

TxtPython == <<"p", "y", "t", "h", "o", "n">>

SolutionSep == <<"\n", "\n", "-", "-", "-", "\n", "\n">>

\* rec.get(k)
Get(rec, k) == IF k \in DOMAIN rec THEN rec[k] ELSE None

\* _first(rec, keys), read from position i of keys.
RECURSIVE FirstFrom(_, _, _)
FirstFrom(rec, keys, i) ==
    IF i > Len(keys) THEN <<>>
    ELSE LET v == Get(rec, keys[i])
             s == Strip(PyStr(v))
         IN  IF v.t = "none" THEN FirstFrom(rec, keys, i + 1)
             ELSE IF s # <<>> /\ Lower(s) # TxtLowerNone THEN s
             ELSE FirstFrom(rec, keys, i + 1)

_first(rec, keys) == FirstFrom(rec, keys, 1)

\* ",".join(rec.get("tags", []) or []): str.join iterates its argument and
\* raises TypeError on a non-string item or a non-iterable argument.
JoinTags(rec) ==
    LET given == IF "tags" \in DOMAIN rec THEN rec["tags"] ELSE ListV(<<>>)
        x == Or(given, ListV(<<>>))
    IN  CASE x.t = "str"  ->
                [ok |-> TRUE,
                 v |-> JoinTexts(<<",">>, [i \in DOMAIN x.v |-> <<x.v[i]>>])]
          [] x.t = "list" ->
                IF \A i \in DOMAIN x.v : x.v[i].t = "str"
                THEN [ok |-> TRUE,
                      v |-> JoinTexts(<<",">>, [i \in DOMAIN x.v |-> x.v[i].v])]
                ELSE [ok |-> FALSE, v |-> <<>>]
          [] OTHER        -> [ok |-> FALSE, v |-> <<>>]

Raised == [ok |-> FALSE, dict |-> <<>>]

map_leetcode(rec) ==
    LET qid == _first(rec, <<"question_id", "id">>)
        t0 == _first(rec, <<"title", "question_title">>)
        title == IF t0 # <<>> THEN t0
                 ELSE IF qid # <<>> THEN TxtLeetPrefix \o qid
                 ELSE TxtLeetProblem
        tags == JoinTags(rec)
    IN  IF ~tags.ok THEN Raised
        ELSE [ok |-> TRUE, dict |-> <<
            <<"source", StrV(TxtLeetCode)>>,
            <<"dataset_id", StrV(qid)>>,
            <<"title", StrV(title)>>,
            <<"prompt", StrV(_first(rec, <<"content", "translatedContent",
                          "description", "question", "body", "prompt">>))>>,
            <<"solution", StrV(_first(rec, <<"solution", "accepted_answer",
                          "reference_solution">>))>>,
            <<"language", StrV(<<>>)>>,
            <<"difficulty", StrV(_first(rec, <<"difficulty", "level">>))>>,
            <<"tags", StrV(tags.v)>>,
            <<"split", StrV(<<>>)>> >>]

map_apps(rec) ==
    LET given == Get(rec, "solutions")
        sols == IF given.t = "list"
                THEN StrV(JoinTexts(SolutionSep,
                         [i \in DOMAIN given.v |-> PyStr(given.v[i])]))
                ELSE given
    IN  [ok |-> TRUE, dict |-> <<
            <<"source", StrV(TxtApps)>>,
            <<"dataset_id", StrV(PyStr(Or(Get(rec, "problem_id"),
                                Or(Get(rec, "id"), StrV(<<>>)))))>>,
            <<"title", Or(Get(rec, "title"), StrV(<<>>))>>,
            <<"prompt", Or(Get(rec, "question"),
                           Or(Get(rec, "prompt"), StrV(<<>>)))>>,
            <<"solution", Or(sols, Or(Get(rec, "solution"), StrV(<<>>)))>>,
            <<"language", StrV(TxtPython)>>,
            <<"difficulty", StrV(PyStr(Or(Get(rec, "difficulty"), StrV(<<>>))))>>,
            <<"tags", StrV(<<>>)>>,
            <<"split", StrV(<<>>)>> >>]

map_codeforces(rec) ==
    LET tags == JoinTags(rec)
    IN  IF ~tags.ok THEN Raised
        ELSE [ok |-> TRUE, dict |-> <<
            <<"source", StrV(TxtCodeforces)>>,
            <<"dataset_id", StrV(PyStr(Or(Get(rec, "id"),
                                Or(Get(rec, "problem_id"), StrV(<<>>)))))>>,
            <<"title", Or(Get(rec, "name"), Or(Get(rec, "title"), StrV(<<>>)))>>,
            <<"prompt", Or(Get(rec, "statement"), Or(Get(rec, "prompt"),
                           Or(Get(rec, "description"), StrV(<<>>))))>>,
            <<"solution", StrV(<<>>)>>,
            <<"language", StrV(<<>>)>>,
            <<"difficulty", StrV(PyStr(Or(Get(rec, "rating"),
                                Or(Get(rec, "difficulty"), StrV(<<>>)))))>>,
            <<"tags", StrV(tags.v)>>,
            <<"split", StrV(<<>>)>> >>]

map_codesearchnet(rec) ==
    [ok |-> TRUE, dict |-> <<
        <<"source", StrV(TxtCodeSearchNet)>>,
        <<"dataset_id", StrV(PyStr(Or(Get(rec, "func_id"),
                            Or(Get(rec, "id"), StrV(<<>>)))))>>,
        <<"title", Or(Get(rec, "func_name"), Or(Get(rec, "path"), StrV(<<>>)))>>,
        <<"prompt", Or(Get(rec, "docstring"),
                       Or(Get(rec, "original_string"), StrV(<<>>)))>>,
        <<"solution", Or(Get(rec, "code"), StrV(<<>>))>>,
        <<"language", Or(Get(rec, "language"),
                         Or(Get(rec, "programming_language"), StrV(<<>>)))>>,
        <<"difficulty", StrV(<<>>)>>,
        <<"tags", StrV(<<>>)>>,
        <<"split", StrV(<<>>)>> >>]

\* REGISTRY: dataset key -> mapper.
REGISTRY == {"leetcode", "apps", "codeforces", "codesearchnet"}

Mapper(name, rec) ==
    CASE name = "leetcode"   -> map_leetcode(rec)
      [] name = "apps"       -> map_apps(rec)
      [] name = "codeforces" -> map_codeforces(rec)
      [] OTHER              -> map_codesearchnet(rec)

----------------------------------------------------------------------------
(* Tables.  A DataFrame / parquet file is [exists, columns, rows]: the     *)
(* ordered column names and the rows, each a function from the column      *)
(* names to cells.                                                         *)

NoFile == [exists |-> FALSE, columns |-> <<>>, rows |-> <<>>]

Frame(cols, rws) == [exists |-> TRUE, columns |-> cols, rows |-> rws]

DictKeys(d) == [i \in DOMAIN d |-> d[i][1]]

DictGet(d, k) ==
    IF k \in Range(DictKeys(d))
    THEN d[CHOOSE i \in DOMAIN d : d[i][1] = k][2]
    ELSE None

\* cols followed by the names of ks that cols lacks, in the order of ks.
RECURSIVE AppendNew(_, _)
AppendNew(cols, ks) ==
    IF ks = <<>> THEN cols
    ELSE IF Head(ks) \in Range(cols) THEN AppendNew(cols, Tail(ks))
    ELSE AppendNew(Append(cols, Head(ks)), Tail(ks))

RECURSIVE FrameColumns(_, _)
FrameColumns(cols, dicts) ==
    IF dicts = <<>> THEN cols
    ELSE FrameColumns(AppendNew(cols, DictKeys(Head(dicts))), Tail(dicts))

\* pd.DataFrame(rows): the columns are the keys in first-seen order.
DataFrame(dicts) ==
    LET cols == FrameColumns(<<>>, dicts)
    IN  Frame(cols, [i \in DOMAIN dicts |->
                        [c \in Range(cols) |-> DictGet(dicts[i], c)]])

\* The mutant keeps the frame's own columns after adding the missing ones.
EnforceKeepsExtras(df) ==
    LET cols == AppendNew(df.columns, UNIFIED_CODE_COLUMNS)
    IN  Frame(cols, [i \in DOMAIN df.rows |->
                [c \in Range(cols) |->
                    IF c \in Range(df.columns) THEN df.rows[i][c]
                    ELSE StrV(<<>>)]])

\* _enforce_unified(df) and _read_parquet: add each missing unified column
\* as "", then select the unified columns in the unified order.
_enforce_unified(df) ==
    Frame(UNIFIED_CODE_COLUMNS, [i \in DOMAIN df.rows |->
                [c \in Range(UNIFIED_CODE_COLUMNS) |->
                    IF c \in Range(df.columns) THEN df.rows[i][c]
                    ELSE StrV(<<>>)]])

_read_parquet(file) == _enforce_unified(file)

\* select_dtypes(include=["object"]): a column of integers only is int64.
IsObject(df, c) ==
    df.rows = <<>> \/ \E i \in DOMAIN df.rows : df.rows[i][c].t # "int"

\* One cell of load_and_map's column-wise strip.
StripCell(x) ==
    LET s == Strip(PyStr(x))
    IN  StrV(IF s # TxtNone THEN s ELSE <<>>)

TxtTrain == <<"t", "r", "a", "i", "n">>

\* load_and_map after the mapper calls: frame, schema, strip, split stamp.
BuildRaw(dicts, split) ==
    LET df == _enforce_unified(DataFrame(dicts))
    IN  Frame(df.columns, [i \in DOMAIN df.rows |->
                [c \in Range(df.columns) |->
                    IF c = "split" THEN StrV(split)
                    ELSE IF IsObject(df, c) THEN StripCell(df.rows[i][c])
                    ELSE df.rows[i][c]]])

----------------------------------------------------------------------------
(* Local Cleaner: validate_clean.py.                                       *)

\* ,\s*
CommaAt(s, i) ==
    IF i <= Len(s) /\ s[i] = "," THEN RunEnd(s, i + 1, "IsSpace") ELSE 0

\* \s*,\s*
RE_COMMA(s, i) ==
    Then(s, i, 0, "IsSpace", [e \in Positions(s) |-> CommaAt(s, e)])

\* The mutant blanks the literal "None" before collapsing and stripping.
NormalizeNoneFirst(x) ==
    LET s == PyStr(x)
    IN  StrV(Strip(CollapseWs(IF s # TxtNone THEN s ELSE <<>>)))

\* One cell of the object-column pass: collapse whitespace, strip, blank
\* the literal "None".
NormalizeCell(x) ==
    LET s == Strip(CollapseWs(PyStr(x)))
    IN  StrV(IF s # TxtNone THEN s ELSE <<>>)

NormalizeTags(x) ==
    LET s == PyStr(x)
        joined == SubFrom(s, 1, [i \in 1..Len(s) |-> RE_COMMA(s, i)], <<",">>)
    IN  StrV(Lower(StripOf(joined, "IsCommaOrSpace")))

NormalizeDifficulty(x) == StrV(Lower(PyStr(x)))

_normalize_strings(df) ==
    Frame(df.columns, [i \in DOMAIN df.rows |->
        [c \in Range(df.columns) |->
            LET x == IF IsObject(df, c) THEN NormalizeCell(df.rows[i][c])
                     ELSE df.rows[i][c]
            IN  IF c = "tags" THEN NormalizeTags(x)
                ELSE IF c = "difficulty" THEN NormalizeDifficulty(x)
                ELSE x]])

\* The mutant compares the lengths with >= 0.
KeepRowAnyLength(row, req) ==
    /\ Len(PyStr(row["prompt"])) >= 0
    /\ (req => Len(PyStr(row["solution"])) >= 0)

\* The mask of _drop_empties for one row.
KeepRow(row, req) ==
    /\ Len(PyStr(row["prompt"])) > 0
    /\ (req => Len(PyStr(row["solution"])) > 0)

_drop_empties(df, req) ==
    Frame(df.columns,
          SelectSeq(df.rows, LAMBDA row : KeepRow(row, req)))

\* hashlib.sha256 taken as injective: the digest stands for its input.
Sha256(bytes) == <<"sha256", bytes>>

\* _row_key: the three fields are fed to the hash one after the other.
_row_key(row) ==
    Sha256(PyStr(row["source"]) \o PyStr(row["title"]) \o PyStr(row["prompt"]))

\* ~keys.duplicated(): a row is kept when no earlier row has its key.
FirstOfKey(rws, i) == \A j \in 1..(i - 1) : _row_key(rws[j]) # _row_key(rws[i])

RECURSIVE KeptFrom(_, _)
KeptFrom(rws, i) ==
    IF i > Len(rws) THEN <<>>
    ELSE IF FirstOfKey(rws, i) THEN <<rws[i]>> \o KeptFrom(rws, i + 1)
    ELSE KeptFrom(rws, i + 1)

_dedupe(df) ==
    LET kept == KeptFrom(df.rows, 1)
    IN  [df |-> Frame(df.columns, kept), removed |-> Len(df.rows) - Len(kept)]

\* The table that clean_one hands to _dedupe.
BeforeDedupe(file, req) ==
    _drop_empties(_normalize_strings(_read_parquet(file)), req)

\* clean_one's transform of an existing input file.
CleanTable(file, req) ==
    _dedupe(BeforeDedupe(file, req))

----------------------------------------------------------------------------
(* Distributed Unifier: spark_clean.py, main.                              *)

MinPromptLen == 20

SampleSize == 50

Min(a, b) == IF a <= b THEN a ELSE b

RECURSIVE ConcatRows(_)
ConcatRows(frames) ==
    IF frames = <<>> THEN <<>>
    ELSE Head(frames).rows \o ConcatRows(Tail(frames))

\* Steps 1-2: read every cleaned file, select the unified columns.
ReadClean(dir) ==
    ConcatRows([i \in DOMAIN dir |-> _enforce_unified(dir[i])])

\* rlike(r"^\s*$")
IsBlank(s) == \A i \in DOMAIN s : IsSpace(s[i])

\* Step 3: the prompt column through the UDF, then the two filters.
NormalizeRows(rws) ==
    LET udf == [i \in DOMAIN rws |->
                  [rws[i] EXCEPT !["prompt"] =
                      StrV(normalize_prompt(PyStr(rws[i]["prompt"])))]]
    IN  SelectSeq(udf, LAMBDA row :
            /\ Len(row["prompt"].v) >= MinPromptLen
            /\ ~IsBlank(row["prompt"].v))

KeySep == <<"|", "|">>

\* F.sha2(F.concat_ws("||", "source", "title", "prompt"), 256)
hash_key(row) ==
    Sha256(PyStr(row["source"]) \o KeySep \o PyStr(row["title"])
           \o KeySep \o PyStr(row["prompt"]))

\* dropDuplicates(["hash_key"]): one row of each key, whichever the engine
\* meets first; every choice is a possible evaluation of the table.
Evaluations(rws) ==
    LET keys == {hash_key(rws[i]) : i \in DOMAIN rws}
        picks == {f \in [keys -> DOMAIN rws] :
                     \A k \in keys : hash_key(rws[f[k]]) = k}
    IN  {{rws[f[k]] : k \in keys} : f \in picks}

\* Step 5: count(*), countDistinct(source), countDistinct(language).
Stats(rs) ==
    [rows |-> Cardinality(rs),
     sources |-> Cardinality({r["source"] : r \in rs}),
     languages |-> Cardinality({r["language"] : r \in rs})]

\* Step 7: limit(50) takes any SampleSize rows of the evaluation.
Samples(rs) ==
    {t \in SUBSET rs : Cardinality(t) = Min(SampleSize, Cardinality(rs))}

NoStats == [rows |-> 0, sources |-> 0, languages |-> 0]

----------------------------------------------------------------------------
(* State.                                                                  *)
(*   pc               the entry point that runs next, or how the run ended *)
(*   txt,pass1,pass2  a prompt text and its first and second normalization *)
(*   key, ds          the dataset key and the raw records fetched for it   *)
(*   mapped           the mapper's result for each raw record              *)
(*   rawTier          the RAW-tier file of the dataset and split           *)
(*   require_solution the --require-solution flag of the cleaner           *)
(*   cleanDir         the CLEAN-tier files                                 *)
(*   removed          the dedup count clean_one reports                    *)
(*   recleaned        the result of cleaning the CLEAN-tier file again     *)
(*   stats,unionTier,sample   what the Distributed Unifier reports/writes  *)

TypeOK ==
    /\ pc \in {"normalize", "renormalize", "normalized", "download", "downloaded",
               "clean", "union", "recleaned", "done", "failed"}
    /\ require_solution \in BOOLEAN
    /\ key \in REGISTRY

\* Variables an entry point has not touched yet.
Untouched ==
    /\ txt = <<>> /\ pass1 = <<>> /\ pass2 = <<>>
    /\ mapped = <<>> /\ removed = 0 /\ recleaned = NoFile
    /\ stats = NoStats /\ unionTier = {} /\ sample = {}

----------------------------------------------------------------------------
(* Text Normalizer runs: normalize a prompt, then normalize the result.    *)

MaxFrags == 3

NormFrags ==
    {Fence, <<"x">>, <<" ">>, <<"\n">>, <<"p", "y">>,
     <<"i", "m", "p", "o", "r", "t", " ", "o", "s", "\n">>, <<"f", "r", "o", "m", " ", "a", ".", "b", " ", "i", "m", "p", "o", "r", "t", " ", "c", "\n">>, <<"f", "o", "o", "\n">>}

RECURSIVE Concats(_)
Concats(n) ==
    IF n = 0 THEN {<<>>}
    ELSE LET shorter == Concats(n - 1)
         IN  shorter \cup {a \o f : a \in shorter, f \in NormFrags}

InitNormalizer ==
    /\ pc = "normalize"
    /\ txt \in Concats(MaxFrags)
    /\ pass1 = <<>> /\ pass2 = <<>>
    /\ key = "leetcode" /\ ds = <<>> /\ mapped = <<>>
    /\ rawTier = NoFile /\ require_solution = FALSE /\ cleanDir = <<>>
    /\ removed = 0 /\ recleaned = NoFile
    /\ stats = NoStats /\ unionTier = {} /\ sample = {}

Normalize ==
    /\ pc = "normalize"
    /\ pass1' = normalize_prompt(txt)
    /\ pc' = "renormalize"
    /\ UNCHANGED <<txt, pass2, key, ds, mapped, rawTier, require_solution,
                   cleanDir, removed, recleaned, stats, unionTier, sample>>

NormalizeAgain ==
    /\ pc = "renormalize"
    /\ pass2' = normalize_prompt(pass1)
    /\ pc' = "normalized"
    /\ UNCHANGED <<txt, pass1, key, ds, mapped, rawTier, require_solution,
                   cleanDir, removed, recleaned, stats, unionTier, sample>>

NextNormalizer == Normalize \/ NormalizeAgain

SpecNormalizer == InitNormalizer /\ [][NextNormalizer]_vars

----------------------------------------------------------------------------
(* Claims about the Text Normalizer (SpecNormalizer).                      *)

\* C2: normalizer idempotence: normalizing an already normalized prompt
\* returns it unchanged, normalize_prompt(normalize_prompt(t)) =
\* normalize_prompt(t) for every text t.
C2_NormalizerIdempotent == pc = "normalized" => pass2 = pass1

\* The lines of t, without their terminators.
LinesOf(t) ==
    {SubSeq(t, a, RunEnd(t, a, "IsNotNewline") - 1) :
        a \in {i \in 1..Len(t) : LineStart(t, i)}}

\* A line that is not blank and does not have the import-statement shape.
NonImportLine(line) ==
    ~IsBlank(line) /\ ImportLine(line \o <<"\n">>, 1) = 0

IsInfix(w, t) == \E i \in 1..(Len(t) + 1) : HasAt(t, i, w)

\* C9: step 1 removes only a prefix block of import lines: when the text
\* opens with a non-import line, step 1 removes nothing (an import line
\* further down stays, up to whitespace collapsing), and in every text each
\* non-import line survives step 1.
C9_ImportPrefixOnly ==
    pc \in {"renormalize", "normalized"} =>
        /\ (txt # <<>> /\ NonImportLine(SubSeq(txt, 1, RunEnd(txt, 1, "IsNotNewline") - 1))
              => pass1 = Strip(CollapseWs(StripFences(txt))))
        /\ \A line \in LinesOf(txt) :
              NonImportLine(line) => IsInfix(line, StripImports(txt))

----------------------------------------------------------------------------
(* Inputs of the pipeline: the raw records the dataset registry returns.   *)

Rep(c, n) == [i \in 1..n |-> c]

SeqsUpTo(S, n) == UNION {[1..k -> S] : k \in 0..n}

\* Scenario 1: fenced content with an import line.
Content1 ==
    Fence \o <<"p", "y", "t", "h", "o", "n", "\n", "i", "m", "p", "o", "r", "t", " ", "o", "s", "\n", "S", "o", "l", "v", "e", " ", "i", "t", ".", " ">> \o Rep("x", 30) \o Fence

Expected1 == <<"S", "o", "l", "v", "e", " ", "i", "t", ".", " ">> \o Rep("x", 30)

Statement == <<"A", "d", "d", " ">> \o Rep("y", 20)

TxtTwoSum == <<"T", "w", "o", " ", "S", "u", "m">>

Scenario1Record ==
    [question_id |-> StrV(<<"4", "2">>), title |-> StrV(TxtTwoSum),
     content |-> StrV(Content1)]

LeetcodeRecords ==
    {Scenario1Record,
     [question_id |-> IntV(42), content |-> StrV(<<" ">>),
      prompt |-> StrV(Statement), tags |-> ListV(<<StrV(<<"d", "p">>), StrV(<<"m", "a", "t", "h">>)>>)],
     [id |-> StrV(TxtNone), title |-> None, content |-> StrV(Statement),
      difficulty |-> StrV(<<"E", "a", "s", "y">>)],
     [title |-> StrV(TxtTwoSum), content |-> StrV(Statement),
      tags |-> ListV(<<IntV(1), IntV(2)>>)],
     [title |-> StrV(TxtTwoSum), content |-> StrV(Statement),
      tags |-> StrV(<<"d", "p">>)]}

AppsRecords ==
    {[problem_id |-> IntV(0), id |-> IntV(7), question |-> StrV(Statement),
      solutions |-> ListV(<<StrV(<<"s", "1">>), StrV(<<"s", "2">>)>>),
      difficulty |-> StrV(<<"H", "a", "r", "d">>)],
     [problem_id |-> IntV(1), question |-> StrV(<<" ", " ">>),
      prompt |-> StrV(Statement), solution |-> StrV(<<"s", "1">>)],
     [question |-> StrV(TxtNone), prompt |-> StrV(Statement)],
     [title |-> ListV(<<StrV(<<"a">>), StrV(<<"b">>)>>), question |-> StrV(Statement),
      solutions |-> None, solution |-> StrV(<<"s", "1">>)],
     [question |-> None, prompt |-> None]}

CodeforcesRecords ==
    {[id |-> StrV(<<"1", "A">>), name |-> StrV(<<"T", "h", "e", "a", "t", "r", "e">>),
      statement |-> StrV(Statement), rating |-> IntV(1000),
      tags |-> ListV(<<StrV(<<"m", "a", "t", "h">>)>>)],
     [name |-> StrV(<<" ">>), title |-> StrV(<<"T", "h", "e", "a", "t", "r", "e">>),
      statement |-> StrV(Statement)],
     [name |-> StrV(<<"T", "h", "e", "a", "t", "r", "e">>), statement |-> StrV(Statement),
      tags |-> ListV(<<IntV(1)>>)],
     [name |-> StrV(<<"T", "h", "e", "a", "t", "r", "e">>), description |-> StrV(Statement),
      tags |-> StrV(<<"d", "p">>)],
     [problem_id |-> IntV(0), name |-> StrV(<<"T", "h", "e", "a", "t", "r", "e">>),
      statement |-> StrV(Statement), tags |-> IntV(5)]}

CodeSearchNetRecords ==
    {[func_name |-> StrV(<<"f">>), docstring |-> StrV(Statement),
      code |-> StrV(<<"p", "a", "s", "s">>), language |-> StrV(TxtPython)],
     [func_id |-> IntV(3), func_name |-> StrV(<<"f">>),
      docstring |-> StrV(Statement), code |-> StrV(<<"p", "a", "s", "s">>),
      language |-> StrV(TxtPython)],
     [func_name |-> None, path |-> StrV(<<"a", ".", "p", "y">>), docstring |-> StrV(<<" ">>),
      original_string |-> StrV(Statement)],
     [func_name |-> StrV(<<"f">>), docstring |-> StrV(TxtNone),
      original_string |-> StrV(Statement),
      programming_language |-> StrV(<<"g", "o">>)],
     [func_name |-> StrV(<<"f">>), docstring |-> StrV(Statement),
      code |-> ListV(<<StrV(<<"a">>)>>)]}

RawPool(name) ==
    CASE name = "leetcode"   -> LeetcodeRecords
      [] name = "apps"       -> AppsRecords
      [] name = "codeforces" -> CodeforcesRecords
      [] OTHER               -> CodeSearchNetRecords

\* RAW files found on disk that this pipeline did not write.
ForeignRaw ==
    {Frame(<<"prompt", "extra", "title">>,
           <<[prompt |-> StrV(Statement), extra |-> StrV(<<"e">>),
              title |-> StrV(<<"T">>)]>>),
     Frame(<<"title", "tags">>, <<[title |-> StrV(<<"T">>), tags |-> StrV(<<"d", "p">>)]>>),
     Frame(<<>>, <<>>)}

MaxRecords == 2

----------------------------------------------------------------------------
(* The three entry points: download_hf.main, validate_clean.clean_one,     *)
(* spark_clean.main.                                                       *)

\* [mapper(rec) for rec in ds]: the comprehension ends at the first raise.
RECURSIVE MapFrom(_, _, _)
MapFrom(name, recs, i) ==
    IF i > Len(recs) THEN <<>>
    ELSE LET r == Mapper(name, recs[i])
         IN  IF r.ok THEN <<r>> \o MapFrom(name, recs, i + 1) ELSE <<r>>

InitDownload ==
    /\ pc = "download"
    /\ key \in REGISTRY
    /\ ds \in SeqsUpTo(RawPool(key), MaxRecords)
    /\ rawTier = NoFile
    /\ require_solution = FALSE
    /\ cleanDir = <<>>
    /\ Untouched

InitRawOnDisk ==
    /\ pc = "clean"
    /\ key = "leetcode"
    /\ ds = <<>>
    /\ rawTier \in ForeignRaw \cup {NoFile}
    /\ require_solution = FALSE
    /\ cleanDir = <<>>
    /\ Untouched

Init == InitDownload \/ InitRawOnDisk

\* download_hf.main for one split: load_and_map, then _save_parquet.
LoadAndMap ==
    /\ pc = "download"
    /\ LET results == MapFrom(key, ds, 1)
           raised == \E i \in DOMAIN results : ~results[i].ok
       IN  /\ mapped' = results
           /\ IF raised
              THEN /\ pc' = "failed"
                   /\ UNCHANGED rawTier
              ELSE /\ pc' = "downloaded"
                   /\ rawTier' = BuildRaw([i \in DOMAIN results |-> results[i].dict],
                                          TxtTrain)
    /\ UNCHANGED <<txt, pass1, pass2, key, ds, require_solution, cleanDir,
                   removed, recleaned, stats, unionTier, sample>>

\* clean_one(dataset_key, split, require_solution).
CleanOne ==
    /\ pc \in {"downloaded", "clean"}
    /\ \E req \in BOOLEAN :
          /\ require_solution' = req
          /\ IF ~rawTier.exists
             THEN /\ pc' = "failed"
                  /\ UNCHANGED <<cleanDir, removed>>
             ELSE LET r == CleanTable(rawTier, req)
                  IN  /\ cleanDir' = <<r.df>>
                      /\ removed' = r.removed
                      /\ pc' = "union"
    /\ UNCHANGED <<txt, pass1, pass2, key, ds, mapped, rawTier, recleaned,
                   stats, unionTier, sample>>

\* clean_one run again on its own output, with the same flag.
CleanAgain ==
    /\ pc = "union"
    /\ Len(cleanDir) = 1
    /\ recleaned' = CleanTable(cleanDir[1], require_solution).df
    /\ pc' = "recleaned"
    /\ UNCHANGED <<txt, pass1, pass2, key, ds, mapped, rawTier,
                   require_solution, cleanDir, removed, stats, unionTier, sample>>

\* spark_clean.main: the deduplicated table is evaluated once for the
\* statistics, once for the partitioned write and once for the sample.
SparkMain ==
    /\ pc = "union"
    /\ IF cleanDir = <<>>
       THEN UNCHANGED <<stats, unionTier, sample>>
       ELSE LET rws == NormalizeRows(ReadClean(cleanDir))
            IN  \E e1, e2, e3 \in Evaluations(rws) :
                   /\ stats' = Stats(e1)
                   /\ unionTier' = e2
                   /\ sample' \in Samples(e3)
    /\ pc' = "done"
    /\ UNCHANGED <<txt, pass1, pass2, key, ds, mapped, rawTier,
                   require_solution, cleanDir, removed, recleaned>>

Next == LoadAndMap \/ CleanOne \/ SparkMain

Spec == Init /\ [][Next]_vars

----------------------------------------------------------------------------
(* Local Cleaner runs on any RAW file of string cells: clean it, then      *)
(* clean the result again.                                                 *)

MaxRows == 2

Row(source, id, title, prompt, solution, language, difficulty, tags) ==
    [source |-> StrV(source), dataset_id |-> StrV(id), title |-> StrV(title),
     prompt |-> StrV(prompt), solution |-> StrV(solution),
     language |-> StrV(language), difficulty |-> StrV(difficulty),
     tags |-> StrV(tags), split |-> StrV(TxtTrain)]

CleanerPool ==
    {Row(<<"S">>, <<"1">>, <<"a", "b">>, <<"c">>, <<"s">>, <<>>, <<>>, <<>>),
     Row(<<"S">>, <<"2">>, <<"a">>, <<"b", "c">>, <<"s">>, <<>>, <<>>, <<>>),
     Row(<<"S">>, <<"3">>, <<"a", "b">>, <<"c">>, <<>>, <<>>, <<>>, <<>>),
     Row(<<"S">>, <<"4">>, <<" ", "N", "o", "n", "e", " ">>, <<" ", "x", " ", "\n", " ", "y", " ">>, <<"s">>, <<>>, <<"E", "a", "s", "y">>, <<" ", "A", " ", ",", " ", "b", ",">>),
     Row(<<"S">>, <<"5">>, <<"t">>, <<>>, <<"s">>, <<>>, <<>>, <<>>),
     Row(<<"S">>, <<"6">>, <<"t">>, <<" ", "\n">>, <<"s">>, <<>>, <<>>, <<>>),
     Row(<<"S">>, <<"7">>, <<"t">>, Rep("x", MinPromptLen - 1), <<"s">>, <<>>, <<>>, <<>>),
     Row(<<"S">>, <<"8">>, <<"t">>, Rep("x", MinPromptLen), <<"s">>, <<>>, <<>>, <<>>),
     Row(<<"S">>, <<"9">>, <<"t">>, TxtNone, <<"s">>, <<>>, <<"N", "O", "N", "E">>, <<",", "N", "o", "n", "e">>),
     Row(<<"S">>, <<"1", "0">>, <<"t">>, <<"x", " ", "y">>, TxtNone, <<>>, <<"N", "o", "n", "e", " ">>, <<"B", ",", ",", "c">>),
     Row(<<"S">>, <<"1", "1">>, <<"\t", "N", "o", "n", "e", "\n">>, <<"N", "o", "n", "e", " ", ",">>, <<" ", " ">>, <<"P", "y">>, <<" ", "M", "e", " ", " ", "d", "i", "u", "m", " ">>, <<" ", ",", "a", ",", " ", ",", "B", " ", ",", " ">>),
     Row(<<" ", "S", " ">>, <<"1", "2">>, <<"a", " ", "b">>, <<"c">>, <<"s">>, <<>>, <<"n", "o", "n", "e">>, <<"N", "o", "n", "e", ",">>),
     Row(<<"S">>, <<"1", "3">>, <<"a">>, <<" ", "b", "c">>, <<"s">>, <<>>, <<>>, <<"x", " ", ",", " ", "N", "o", "n", "e">>),
     Row(<<"S", " ">>, <<"1", "4">>, <<"a", "b">>, <<"c">>, <<"s">>, <<>>, <<>>, <<",">>)}

InitCleaner ==
    /\ pc = "clean"
    /\ key = "leetcode"
    /\ ds = <<>>
    /\ rawTier \in {Frame(UNIFIED_CODE_COLUMNS, rws) :
                       rws \in SeqsUpTo(CleanerPool, MaxRows)}
    /\ require_solution = FALSE
    /\ cleanDir = <<>>
    /\ Untouched

NextCleaner == CleanOne \/ CleanAgain

SpecCleaner == InitCleaner /\ [][NextCleaner]_vars

----------------------------------------------------------------------------
(* Distributed Unifier runs on any two CLEAN-tier files, or on none.       *)

MaxFileRows == 2

UnionPool ==
    {Row(<<"A">>, <<"1">>, <<"T", "|">>, Statement, <<"s">>, TxtPython, <<>>, <<>>),
     Row(<<"A">>, <<"2">>, <<"T">>, <<"|">> \o Statement, <<"s">>, TxtPython, <<>>, <<>>),
     Row(<<"A">>, <<"3">>, <<"T">>, Fence \o <<"p", "y", " ">> \o Statement, <<"s">>, TxtPython, <<>>, <<>>),
     Row(<<"B">>, <<"4">>, <<"T">>, Statement, <<"s">>, <<"c", "p", "p">>, <<>>, <<>>),
     Row(<<"A">>, <<"5">>, <<"T">>, Statement, <<>>, <<"c", "p", "p">>, <<>>, <<>>),
     Row(<<"B">>, <<"6">>, <<"T">>, Rep("x", MinPromptLen - 1), <<"s">>, <<>>, <<>>, <<>>)}

UnionFiles ==
    {Frame(UNIFIED_CODE_COLUMNS, rws) : rws \in SeqsUpTo(UnionPool, MaxFileRows)}

InitUnifier ==
    /\ pc = "union"
    /\ key = "leetcode"
    /\ ds = <<>>
    /\ rawTier = NoFile
    /\ require_solution = FALSE
    /\ cleanDir \in {<<>>} \cup (UnionFiles \X UnionFiles)
    /\ Untouched

NextUnifier == SparkMain

SpecUnifier == InitUnifier /\ [][NextUnifier]_vars

----------------------------------------------------------------------------
(* Claims about the Local Cleaner (SpecCleaner).                           *)

Triple(row) == <<PyStr(row["source"]), PyStr(row["title"]), PyStr(row["prompt"])>>

Cleaned == pc \in {"union", "recleaned"} /\ Len(cleanDir) = 1

\* C1: dedup soundness: two rows get the same identity key exactly when
\* they have the same (source, title, prompt) triple, so _dedupe removes no
\* row whose triple differs from the triple of every earlier row.
C1_DedupSound ==
    Cleaned =>
        LET rws == BeforeDedupe(rawTier, require_solution).rows
        IN  /\ \A i, j \in DOMAIN rws :
                   _row_key(rws[i]) = _row_key(rws[j])
                       <=> Triple(rws[i]) = Triple(rws[j])
            /\ \A i \in DOMAIN rws :
                   \E j \in DOMAIN cleanDir[1].rows :
                       Triple(cleanDir[1].rows[j]) = Triple(rws[i])

\* C4 as stated: every row the Local Cleaner writes has a prompt of at
\* least 20 characters that is not all whitespace.
C4_MinPromptLength ==
    Cleaned =>
        \A i \in DOMAIN cleanDir[1].rows :
            /\ Len(cleanDir[1].rows[i]["prompt"].v) >= MinPromptLen
            /\ ~IsBlank(cleanDir[1].rows[i]["prompt"].v)

\* C4 amended: every row the Local Cleaner writes has a prompt of at least
\* one character that is not all whitespace; and a normalized row with a
\* non-empty prompt (and a non-empty solution when require_solution is set)
\* is written unless _dedupe removed it for having the key of an earlier
\* such row.
C4_NonEmptyPrompt ==
    Cleaned =>
        LET out == cleanDir[1].rows
            norm == _normalize_strings(_read_parquet(rawTier)).rows
            Usable(row) ==
                /\ Len(row["prompt"].v) >= 1
                /\ (require_solution => Len(row["solution"].v) >= 1)
        IN  /\ \A i \in DOMAIN out :
                   /\ Len(out[i]["prompt"].v) >= 1
                   /\ ~IsBlank(out[i]["prompt"].v)
            /\ \A i \in DOMAIN norm :
                   Usable(norm[i]) =>
                       \/ norm[i] \in Range(out)
                       \/ \E j \in 1..(i - 1) :
                             /\ Usable(norm[j])
                             /\ _row_key(norm[j]) = _row_key(norm[i])

\* A row with a prompt shorter than 20 characters was written while another
\* row of the file was dropped for its empty prompt.
C4_Witness ==
    /\ Cleaned
    /\ removed = 0
    /\ Len(rawTier.rows) = 2
    /\ Len(cleanDir[1].rows) = 1
    /\ Len(cleanDir[1].rows[1]["prompt"].v) < MinPromptLen

\* C5: idempotence of local cleaning: cleaning the cleaned file again, with
\* the same require_solution flag, changes no field and removes no row.
C5_CleanIdempotent == pc = "recleaned" => recleaned = cleanDir[1]

\* The first pass rewrote the surviving row and took another row away.
C5_Witness ==
    /\ pc = "recleaned"
    /\ Len(rawTier.rows) = 2
    /\ Len(cleanDir[1].rows) = 1
    /\ cleanDir[1].rows[1] \notin Range(rawTier.rows)

\* C11: local deduplication keeps first occurrences: the output of _dedupe
\* has no two rows with the same (source, title, prompt) triple, every
\* triple of the input is in the output, the survivor of a triple is its
\* first row in file order, the survivors keep their relative order, and
\* the reported count is the input row count minus the output row count.
C11_DedupKeepsFirst ==
    Cleaned =>
        LET inp == BeforeDedupe(rawTier, require_solution).rows
            out == cleanDir[1].rows
            FirstOfTriple(i) ==
                \A j \in 1..(i - 1) : Triple(inp[j]) # Triple(inp[i])
            firsts == SelectSeq([i \in DOMAIN inp |-> <<i, inp[i]>>],
                                LAMBDA p : FirstOfTriple(p[1]))
        IN  /\ \A i, j \in DOMAIN out :
                   Triple(out[i]) = Triple(out[j]) => i = j
            /\ \A i \in DOMAIN inp :
                   \E j \in DOMAIN out : Triple(out[j]) = Triple(inp[i])
            /\ out = [k \in DOMAIN firsts |-> firsts[k][2]]
            /\ removed = Len(inp) - Len(out)

----------------------------------------------------------------------------
(* Claims about the pipeline (Spec).                                       *)

\* C3: scenario 1: the fenced LeetCode record with an import line maps and
\* cleans to exactly one CLEAN-tier row with dataset_id 42, title Two Sum
\* and the prompt "Solve it. " followed by 30 x.
C3_Scenario1 ==
    (pc \in {"union", "done"} /\ key = "leetcode" /\ ds = <<Scenario1Record>>) =>
        /\ Len(cleanDir) = 1
        /\ Len(cleanDir[1].rows) = 1
        /\ cleanDir[1].rows[1]["dataset_id"] = StrV(<<"4", "2">>)
        /\ cleanDir[1].rows[1]["title"] = StrV(TxtTwoSum)
        /\ cleanDir[1].rows[1]["prompt"] = StrV(Expected1)

\* C6: every registered mapper is total: it returns for every raw record,
\* and a tags value that is a plain string is kept as that string, not
\* re-shaped.
C6_MapperTotal ==
    \A i \in DOMAIN mapped :
        /\ mapped[i].ok
        /\ ("tags" \in DOMAIN ds[i] /\ ds[i]["tags"].t = "str"
              /\ key \in {"leetcode", "codeforces"})
             => DictGet(mapped[i].dict, "tags") = ds[i]["tags"]

IsUnified(df) ==
    /\ df.columns = UNIFIED_CODE_COLUMNS
    /\ \A i \in DOMAIN df.rows : DOMAIN df.rows[i] = Range(UNIFIED_CODE_COLUMNS)

\* C7: schema totality: every mapper result has exactly the nine unified
\* keys in the unified order, and the tables of load_and_map and of
\* _read_parquet have exactly the unified columns in that order.
C7_SchemaTotality ==
    /\ \A i \in DOMAIN mapped :
          mapped[i].ok => DictKeys(mapped[i].dict) = UNIFIED_CODE_COLUMNS
    /\ pc = "downloaded" => IsUnified(rawTier)
    /\ \A k \in DOMAIN cleanDir : IsUnified(cleanDir[k])

\* Two records were mapped, saved and cleaned.
C7_Witness ==
    /\ pc = "union"
    /\ Len(mapped) = 2
    /\ Len(rawTier.rows) = 2
    /\ Len(cleanDir) = 1
    /\ cleanDir[1].rows # <<>>

\* The claimed selection: the stripped string of the first candidate whose
\* stripped string is neither empty nor the missing marker.
RECURSIVE ClaimedFirst(_, _, _)
ClaimedFirst(rec, keys, i) ==
    IF i > Len(keys) THEN <<>>
    ELSE LET s == Strip(PyStr(Get(rec, keys[i])))
         IN  IF s # <<>> /\ s # TxtNone THEN s
             ELSE ClaimedFirst(rec, keys, i + 1)

\* The output fields with a candidate list, per mapper (the title of
\* map_leetcode has a placeholder instead of the empty string).
Candidates(name) ==
    CASE name = "leetcode" ->
            {<<"dataset_id", <<"question_id", "id">>>>,
             <<"prompt", <<"content", "translatedContent", "description",
                           "question", "body", "prompt">>>>,
             <<"solution", <<"solution", "accepted_answer",
                             "reference_solution">>>>,
             <<"difficulty", <<"difficulty", "level">>>>}
      [] name = "apps" ->
            {<<"dataset_id", <<"problem_id", "id">>>>,
             <<"prompt", <<"question", "prompt">>>>}
      [] name = "codeforces" ->
            {<<"dataset_id", <<"id", "problem_id">>>>,
             <<"title", <<"name", "title">>>>,
             <<"prompt", <<"statement", "prompt", "description">>>>,
             <<"difficulty", <<"rating", "difficulty">>>>}
      [] OTHER ->
            {<<"dataset_id", <<"func_id", "id">>>>,
             <<"title", <<"func_name", "path">>>>,
             <<"prompt", <<"docstring", "original_string">>>>,
             <<"language", <<"language", "programming_language">>>>}

\* C10: first-present-wins holds for every mapper: each field with a
\* candidate list is emitted as the stripped string of the first candidate
\* that is neither empty nor the missing marker, or as the empty string.
C10_FirstPresentWins ==
    pc = "downloaded" =>
        \A i \in DOMAIN ds : \A fc \in Candidates(key) :
            rawTier.rows[i][fc[1]] = StrV(ClaimedFirst(ds[i], fc[2], 1))

----------------------------------------------------------------------------
(* Claims about the Distributed Unifier (SpecUnifier).                     *)

\* C8: global deduplication: the union output holds exactly one row for
\* every distinct (source, title, normalized prompt) triple among the input
\* rows that pass the length filter.
C8_GlobalDedup ==
    (pc = "done" /\ cleanDir # <<>>) =>
        LET rws == NormalizeRows(ReadClean(cleanDir))
        IN  \A i \in DOMAIN rws :
               Cardinality({r \in unionTier : Triple(r) = Triple(rws[i])}) = 1

\* C12: in one run of the Distributed Unifier the sample is consistent with
\* the persisted union: it holds min(50, R) rows, R being the number of rows
\* written to the union output, and every sample row is equal in all nine
\* fields to a row of the union output.
C12_SampleOfUnion ==
    (pc = "done" /\ cleanDir # <<>>) =>
        /\ Cardinality(sample) = Min(SampleSize, Cardinality(unionTier))
        /\ \A r \in sample : \E u \in unionTier :
               \A c \in Range(UNIFIED_CODE_COLUMNS) : r[c] = u[c]

====
